---- MODULE Spec2Model ----
(***************************************************************************)
(* Model of export_combinations_and_summary (src/testing.py).              *)
(*                                                                         *)
(* Strings are sequences of one-character strings, so that sorting,        *)
(* str.replace and numeric parsing are computed character by character.    *)
(* A missing category value (NaN) is the one-element sequence <<"nan">>,   *)
(* whose element is not a character, so it equals no string.               *)
(* Slack cells are tagged: a number, a string, or the float NaN.           *)
(*                                                                         *)
(* agg.loc[slicer] is modelled for two and for three or more filter        *)
(* columns (the example wiring uses five); category values are assumed not *)
(* to be the reserved marker "all" nor a column name of agg.               *)
(***************************************************************************)
EXTENDS Integers, Sequences, FiniteSets, TLC

VARIABLES df, filter_cols, export_filtered_csvs, pc, dir_exists, value_lists,
          agg, idx, summary_rows, written, summary_df, summary_file,
          error, run, prev_summary

vars == <<df, filter_cols, export_filtered_csvs, pc, dir_exists, value_lists,
          agg, idx, summary_rows, written, summary_df, summary_file,
          error, run, prev_summary>>

\* Bounds of the model.
MaxRows == 2
MaxRuns == 2

----------------------------------------------------------------------------
\* Values

ALL == <<"a", "l", "l">>
NaN == <<"nan">>
SliceNone == <<"slice(None)">>
NoFile == <<"no file">>

Num(n) == [t |-> "num", n |-> n, s |-> <<>>]
Str(s) == [t |-> "str", n |-> 0, s |-> s]
NaNf == [t |-> "nan", n |-> 0, s |-> <<>>]

Digits == {"0", "1", "2", "3", "4", "5", "6", "7", "8", "9"}

Code(ch) ==
    CASE ch = "-" -> 45 [] ch = "." -> 46 [] ch = "/" -> 47
      [] ch = "0" -> 48 [] ch = "1" -> 49 [] ch = "2" -> 50 [] ch = "3" -> 51
      [] ch = "4" -> 52 [] ch = "5" -> 53 [] ch = "6" -> 54 [] ch = "7" -> 55
      [] ch = "8" -> 56 [] ch = "9" -> 57 [] ch = "_" -> 95
      [] ch = "a" -> 97 [] ch = "b" -> 98 [] ch = "c" -> 99
      [] ch = "l" -> 108 [] ch = "p" -> 112 [] ch = "q" -> 113
      [] ch = "r" -> 114 [] ch = "s" -> 115 [] ch = "v" -> 118
      [] ch = "x" -> 120 [] ch = "y" -> 121 [] ch = "z" -> 122

\* Python's < on str: lexicographic by code point.
RECURSIVE StrLess(_, _)
StrLess(s, t) ==
    IF s = <<>> THEN t # <<>>
    ELSE IF t = <<>> THEN FALSE
    ELSE IF Head(s) = Head(t) THEN StrLess(Tail(s), Tail(t))
    ELSE Code(Head(s)) < Code(Head(t))

\* str(v).replace('/', '_')
RECURSIVE Replace(_)
Replace(s) ==
    IF s = <<>> THEN <<>>
    ELSE <<IF Head(s) = "/" THEN "_" ELSE Head(s)>> \o Replace(Tail(s))

RECURSIVE ParseNat(_, _)
ParseNat(s, acc) ==
    IF s = <<>> THEN acc
    ELSE ParseNat(Tail(s), 10 * acc + (Code(Head(s)) - Code("0")))

IsNat(s) == s # <<>> /\ \A k \in DOMAIN s : s[k] \in Digits

IsIntLiteral(s) ==
    \/ IsNat(s)
    \/ s # <<>> /\ Head(s) = "-" /\ IsNat(Tail(s))

ParseInt(s) == IF Head(s) = "-" THEN 0 - ParseNat(Tail(s), 0) ELSE ParseNat(s, 0)

\* a coercion that accepts only text, and loses the cells that are numbers
ToNumericTextOnly(v) ==
    IF v.t = "str" /\ IsIntLiteral(v.s) THEN Num(ParseInt(v.s)) ELSE NaNf

\* pd.to_numeric(v, errors="coerce") on one cell
ToNumeric(v) ==
    IF v.t = "num" THEN v
    ELSE IF v.t = "str" /\ IsIntLiteral(v.s) THEN Num(ParseInt(v.s))
    ELSE NaNf

----------------------------------------------------------------------------
\* Sequences

RECURSIVE Unique(_)
Unique(s) ==
    IF s = <<>> THEN <<>>
    ELSE LET h == Head(s)
         IN <<h>> \o Unique(SelectSeq(Tail(s), LAMBDA x : x # h))

DropNa(s) == SelectSeq(s, LAMBDA x : x # NaN)

Sorted(s) == SortSeq(s, StrLess)

RECURSIVE SumSeq(_)
SumSeq(s) == IF s = <<>> THEN 0 ELSE Head(s) + SumSeq(Tail(s))

RECURSIVE MinSeq(_)
MinSeq(s) ==
    IF Len(s) = 1 THEN Head(s)
    ELSE LET m == MinSeq(Tail(s)) IN IF Head(s) < m THEN Head(s) ELSE m

RECURSIVE Flatten(_)
Flatten(ss) == IF ss = <<>> THEN <<>> ELSE Head(ss) \o Flatten(Tail(ss))

\* itertools.product(*lists): the last list varies fastest.
RECURSIVE Product(_)
Product(lists) ==
    IF lists = <<>> THEN << <<>> >>
    ELSE LET rest == Product(Tail(lists))
             h == Head(lists)
         IN Flatten([a \in DOMAIN h |->
                        [b \in DOMAIN rest |-> <<h[a]>> \o rest[b]]])

----------------------------------------------------------------------------
\* The table

Columns(d) == DOMAIN d[1]

Column(d, c) == [k \in DOMAIN d |-> d[k][c]]

\* domains built without unique(): a value is listed once per row
ValueListsRepeated(d, cols) ==
    [j \in DOMAIN cols |-> Sorted(DropNa(Column(d, cols[j]))) \o <<ALL>>]

\* [sorted(df[c].dropna().unique().tolist()) + ["all"] for c in filter_cols]
ValueLists(d, cols) ==
    [j \in DOMAIN cols |-> Sorted(Unique(DropNa(Column(d, cols[j])))) \o <<ALL>>]

\* a coercion that creates the slack column when the table has none
CoerceSlackLenient(d) ==
    [ok |-> TRUE,
     df |-> [k \in DOMAIN d |->
                [c \in Columns(d) \cup {"slack"} |->
                    IF c = "slack"
                    THEN (IF "slack" \in Columns(d) THEN ToNumeric(d[k][c]) ELSE NaNf)
                    ELSE d[k][c]]]]

\* df["slack"] = pd.to_numeric(df["slack"], errors="coerce")
CoerceSlack(d) ==
    IF "slack" \in Columns(d)
    THEN [ok |-> TRUE,
          df |-> [k \in DOMAIN d |-> [d[k] EXCEPT !["slack"] = ToNumeric(@)]]]
    ELSE [ok |-> FALSE, df |-> d]

KeyOf(row, cols) == [j \in DOMAIN cols |-> row[cols[j]]]

\* order of index labels in sort_index: missing values last
CellLess(a, b) ==
    IF a = NaN THEN FALSE ELSE IF b = NaN THEN TRUE ELSE StrLess(a, b)

RECURSIVE KeyLess(_, _)
KeyLess(k1, k2) ==
    IF k1 = <<>> THEN FALSE
    ELSE IF Head(k1) = Head(k2) THEN KeyLess(Tail(k1), Tail(k2))
    ELSE CellLess(Head(k1), Head(k2))

\* groupby with the default dropna=True: keys with a missing value are dropped
GroupKeysDropNa(d, cols) ==
    SelectSeq(Unique([k \in DOMAIN d |-> KeyOf(d[k], cols)]),
              LAMBDA key : \A j \in DOMAIN key : key[j] # NaN)

\* groupby(filter_cols, dropna=False): the group keys, missing values kept
GroupKeys(d, cols) == Unique([k \in DOMAIN d |-> KeyOf(d[k], cols)])

NumsOf(cells) ==
    LET nums == SelectSeq(cells, LAMBDA v : v.t = "num")
    IN [k \in DOMAIN nums |-> nums[k].n]

\* "count" in place of "size": only the rows whose slack is not missing
GroupSizeNonMissing(members) ==
    Len(SelectSeq(members, LAMBDA row : row["slack"].t = "num"))

\* "size": every row of the group
GroupSize(members) == Len(members)

\* "min": missing values skipped, missing when none is left
MinSlack(cells) ==
    IF NumsOf(cells) = <<>> THEN NaNf ELSE Num(MinSeq(NumsOf(cells)))

\* "sum": missing values skipped, 0 when none is left
SumSlack(cells) == SumSeq(NumsOf(cells))

GroupAgg(d, cols, key) ==
    LET members == SelectSeq(d, LAMBDA row : KeyOf(row, cols) = key)
        cells == [k \in DOMAIN members |-> members[k]["slack"]]
    IN [key |-> key,
        rows |-> GroupSize(members),
        min_slack |-> MinSlack(cells),
        sum_slack |-> SumSlack(cells)]

\* df.groupby(filter_cols, dropna=False).agg(...) followed by sort_index()
GroupBy(d, cols) ==
    LET keys == SortSeq(GroupKeys(d, cols), KeyLess)
    IN [k \in DOMAIN keys |-> GroupAgg(d, cols, keys[k])]

----------------------------------------------------------------------------
\* One combination

Slicer(combo) ==
    [j \in DOMAIN combo |-> IF combo[j] = ALL THEN SliceNone ELSE combo[j]]

LevelValues(a, j) == {a[k].key[j] : k \in DOMAIN a}

KeyErr == [kind |-> "KeyError", groups |-> <<>>]
Series(g) == [kind |-> "Series", groups |-> <<g>>]
Frame(gs) == [kind |-> "DataFrame", groups |-> gs]

\* a lookup by the first level only, taking the first group found
LocExactPartial(a, slicer) ==
    LET hits == SelectSeq(a, LAMBDA g : g.key[1] = slicer[1])
    IN IF hits = <<>> THEN KeyErr ELSE Series(hits[1])

\* agg.loc[slicer] for a tuple without slices: the whole tuple is one label
\* of the row index; a miss ends in KeyError.
LocExact(a, slicer) ==
    LET hits == SelectSeq(a, LAMBDA g : g.key = slicer)
    IN IF hits = <<>> THEN KeyErr ELSE Series(hits[1])

\* agg.loc[slicer] for a tuple with slices that is no longer than the frame
\* has axes (two): the tuple is taken axis by axis, its first element for the
\* rows and its second for the columns rows/min_slack/sum_slack.
LocPerAxis(a, slicer) ==
    IF slicer[2] # SliceNone THEN KeyErr
    ELSE IF slicer[1] = SliceNone THEN Frame(a)
    ELSE LET hits == SelectSeq(a, LAMBDA g : g.key[1] = slicer[1])
         IN IF hits = <<>> THEN KeyErr ELSE Frame(hits)

\* agg.loc[slicer] for a tuple with slices that is longer than the frame has
\* axes: the tuple selects on the levels of the row index.
LocLevels(a, slicer) ==
    IF \E j \in DOMAIN slicer :
           slicer[j] # SliceNone /\ slicer[j] \notin LevelValues(a, j)
    THEN KeyErr
    ELSE Frame(SelectSeq(a, LAMBDA g :
                   \A j \in DOMAIN slicer :
                       slicer[j] = SliceNone \/ g.key[j] = slicer[j]))

Loc(a, slicer) ==
    IF \A j \in DOMAIN slicer : slicer[j] # SliceNone THEN LocExact(a, slicer)
    ELSE IF Len(slicer) <= 2 THEN LocPerAxis(a, slicer)
    ELSE LocLevels(a, slicer)

\* the try / except KeyError block
Resolve(a, combo) ==
    LET sub == Loc(a, Slicer(combo))
        gs == sub.groups
    IN IF sub.kind = "Series"
       THEN [rows |-> gs[1].rows,
             min_slack |-> gs[1].min_slack,
             sum_slack |-> gs[1].sum_slack]
       ELSE IF sub.kind = "DataFrame"
       THEN [rows |-> SumSeq([k \in DOMAIN gs |-> gs[k].rows]),
             min_slack |-> MinSlack([k \in DOMAIN gs |-> gs[k].min_slack]),
             sum_slack |-> SumSeq([k \in DOMAIN gs |-> gs[k].sum_slack])]
       ELSE [rows |-> 0, min_slack |-> NaNf, sum_slack |-> 0]

SummaryRow(a, combo) ==
    LET res == Resolve(a, combo)
    IN [combo |-> combo, rows |-> res.rows,
        min_slack |-> res.min_slack, sum_slack |-> res.sum_slack]

\* the export guard with >= in place of >
ShouldExportAlways(flag, row_count) == flag /\ row_count >= 0

\* if export_filtered_csvs and row_count > 0
ShouldExport(flag, row_count) == flag /\ row_count > 0

\* the filters joined by "or" in place of being applied one after the other
SubsetAny(d, cols, combo) ==
    SelectSeq(d, LAMBDA row :
        \E j \in DOMAIN cols : combo[j] = ALL \/ row[cols[j]] = combo[j])

\* subset = subset[subset[c] == v] for every filter that is not 'all'
Subset(d, cols, combo) ==
    SelectSeq(d, LAMBDA row :
        \A j \in DOMAIN cols : combo[j] = ALL \/ row[cols[j]] = combo[j])

RECURSIVE Join(_, _)
Join(parts, sep) ==
    IF parts = <<>> THEN <<>>
    ELSE IF Len(parts) = 1 THEN Head(parts)
    ELSE Head(parts) \o sep \o Join(Tail(parts), sep)

\* "_".join(f"{c}-{str(v).replace('/','_')}") + ".csv"
FileName(cols, combo) ==
    Join([j \in DOMAIN cols |-> <<cols[j]>> \o <<"-">> \o Replace(combo[j])],
         <<"_">>)
      \o <<".", "c", "s", "v">>

\* the directory after a sequence of to_csv calls: the last write wins
Paths(w) == {w[k].path : k \in DOMAIN w}

LastWrite(w, path) ==
    LET k == CHOOSE k \in DOMAIN w :
                 /\ w[k].path = path
                 /\ \A m \in DOMAIN w : w[m].path = path => m <= k
    IN w[k].data

Files(w) == [path \in Paths(w) |-> LastWrite(w, path)]

\* summary_df.sort_values(by=filter_cols): plain comparison of the values
RECURSIVE ComboLess(_, _)
ComboLess(c1, c2) ==
    IF c1 = <<>> THEN FALSE
    ELSE IF Head(c1) = Head(c2) THEN ComboLess(Tail(c1), Tail(c2))
    ELSE StrLess(Head(c1), Head(c2))

SortValues(rows) == SortSeq(rows, LAMBDA r1, r2 : ComboLess(r1.combo, r2.combo))

----------------------------------------------------------------------------
\* Inputs

CatP == {<<"a">>, <<"b">>}
CatQ == {<<"x", "/", "y">>, <<"x", "_", "y">>, NaN}
CatR == {<<"c">>}
SlackRaw == {Num(1), Str(<<"-", "2">>), Str(<<"x">>)}

Rows == [p : CatP, q : CatQ, r : CatR, slack : SlackRaw]
RowsNoSlack == [p : CatP, q : CatQ, r : CatR]

\* The tables are enumerated up to the order of their rows, which nothing but
\* the order of the rows inside an exported subset depends on: one table per
\* multiset of rows, its rows in an order that sorts no column.
PlaceIn(seq, v) == CHOOSE k \in DOMAIN seq : seq[k] = v

RowPlace(row) ==
    <<IF "slack" \in DOMAIN row
      THEN PlaceIn(<<Str(<<"x">>), Num(1), Str(<<"-", "2">>)>>, row["slack"])
      ELSE 0,
      PlaceIn(<<<<"x", "_", "y">>, NaN, <<"x", "/", "y">>>>, row["q"]),
      PlaceIn(<<<<"b">>, <<"a">>>>, row["p"])>>

PlaceLeq(a, b) ==
    \/ a[1] < b[1]
    \/ a[1] = b[1] /\ a[2] < b[2]
    \/ a[1] = b[1] /\ a[2] = b[2] /\ a[3] <= b[3]

Tables(R) ==
    UNION {{t \in [1..n -> R] :
               \A k \in 1..(n - 1) : PlaceLeq(RowPlace(t[k]), RowPlace(t[k + 1]))}
           : n \in 1..MaxRows}

FilterChoices == {<<"p", "q">>, <<"p", "q", "r">>, <<"p", "z">>}

Init ==
    /\ df \in Tables(Rows) \cup Tables(RowsNoSlack)
    /\ filter_cols \in FilterChoices
    /\ export_filtered_csvs \in BOOLEAN
    /\ pc = "makedirs"
    /\ dir_exists = FALSE
    /\ value_lists = <<>>
    /\ agg = <<>>
    /\ idx = 0
    /\ summary_rows = <<>>
    /\ written = <<>>
    /\ summary_df = <<>>
    /\ summary_file = NoFile
    /\ error = "none"
    /\ run = 1
    /\ prev_summary = <<>>

----------------------------------------------------------------------------
\* Steps of export_combinations_and_summary

MakeDirs ==
    /\ pc = "makedirs"
    /\ dir_exists' = TRUE
    /\ pc' = "domains"
    /\ UNCHANGED <<df, filter_cols, export_filtered_csvs, value_lists, agg, idx,
                   summary_rows, written, summary_df, summary_file, error, run,
                   prev_summary>>

DomainsOk ==
    /\ pc = "domains"
    /\ \A j \in DOMAIN filter_cols : filter_cols[j] \in Columns(df)
    /\ value_lists' = ValueLists(df, filter_cols)
    /\ pc' = "coerce"
    /\ UNCHANGED <<df, filter_cols, export_filtered_csvs, dir_exists, agg, idx,
                   summary_rows, written, summary_df, summary_file, error, run,
                   prev_summary>>

DomainsKeyError ==
    /\ pc = "domains"
    /\ \E j \in DOMAIN filter_cols : filter_cols[j] \notin Columns(df)
    /\ error' = "KeyError"
    /\ pc' = "failed"
    /\ UNCHANGED <<df, filter_cols, export_filtered_csvs, dir_exists,
                   value_lists, agg, idx, summary_rows, written, summary_df,
                   summary_file, run, prev_summary>>

CoerceOk ==
    /\ pc = "coerce"
    /\ CoerceSlack(df).ok
    /\ df' = CoerceSlack(df).df
    /\ pc' = "groupby"
    /\ UNCHANGED <<filter_cols, export_filtered_csvs, dir_exists, value_lists,
                   agg, idx, summary_rows, written, summary_df, summary_file,
                   error, run, prev_summary>>

CoerceKeyError ==
    /\ pc = "coerce"
    /\ ~CoerceSlack(df).ok
    /\ error' = "KeyError"
    /\ pc' = "failed"
    /\ UNCHANGED <<df, filter_cols, export_filtered_csvs, dir_exists,
                   value_lists, agg, idx, summary_rows, written, summary_df,
                   summary_file, run, prev_summary>>

Aggregate ==
    /\ pc = "groupby"
    /\ agg' = GroupBy(df, filter_cols)
    /\ summary_rows' = <<>>
    /\ idx' = 1
    /\ pc' = "loop"
    /\ UNCHANGED <<df, filter_cols, export_filtered_csvs, dir_exists,
                   value_lists, written, summary_df, summary_file, error, run,
                   prev_summary>>

Combos == Product(value_lists)

\* one iteration of  for combo in itertools.product(*value_lists)
Combo ==
    /\ pc = "loop"
    /\ idx <= Len(Combos)
    /\ LET combo == Combos[idx]
           row == SummaryRow(agg, combo)
       IN /\ summary_rows' = Append(summary_rows, row)
          /\ written' =
                IF ShouldExport(export_filtered_csvs, row.rows)
                THEN Append(written,
                            [path |-> FileName(filter_cols, combo),
                             data |-> Subset(df, filter_cols, combo)])
                ELSE written
    /\ idx' = idx + 1
    /\ UNCHANGED <<df, filter_cols, export_filtered_csvs, pc, dir_exists,
                   value_lists, agg, summary_df, summary_file, error, run,
                   prev_summary>>

\* the summary frame is built, sorted, saved and returned
SaveSummary ==
    /\ pc = "loop"
    /\ idx > Len(Combos)
    /\ summary_df' = SortValues(summary_rows)
    /\ summary_file' = SortValues(summary_rows)
    /\ pc' = "done"
    /\ UNCHANGED <<df, filter_cols, export_filtered_csvs, dir_exists,
                   value_lists, agg, idx, summary_rows, written, error, run,
                   prev_summary>>

\* the caller runs the function again on the table as the run left it
Rerun ==
    /\ pc = "done"
    /\ run < MaxRuns
    /\ run' = run + 1
    /\ prev_summary' = summary_df
    /\ pc' = "makedirs"
    /\ value_lists' = <<>>
    /\ agg' = <<>>
    /\ idx' = 0
    /\ summary_rows' = <<>>
    /\ summary_df' = <<>>
    /\ UNCHANGED <<df, filter_cols, export_filtered_csvs, dir_exists, written,
                   summary_file, error>>

Next ==
    \/ MakeDirs
    \/ DomainsOk
    \/ DomainsKeyError
    \/ CoerceOk
    \/ CoerceKeyError
    \/ Aggregate
    \/ Combo
    \/ SaveSummary
    \/ Rerun

Spec == Init /\ [][Next]_vars

TypeOK ==
    /\ pc \in {"makedirs", "domains", "coerce", "groupby", "loop", "done", "failed"}
    /\ run \in 1..MaxRuns
    /\ idx \in 0..(Len(Combos) + 1)
    /\ error \in {"none", "KeyError"}

----------------------------------------------------------------------------
\* Reference definitions for the properties, computed from the table itself

Concrete(combo) == \A j \in DOMAIN combo : combo[j] # ALL

AllWild(combo) == \A j \in DOMAIN combo : combo[j] = ALL

Running == pc \in {"loop", "done"}

\* input rows whose category fields equal the combination exactly
ExactRows(combo) == {k \in DOMAIN df : KeyOf(df[k], filter_cols) = combo}

\* count of the pre-aggregated group of a combination, 0 when there is none
GroupCount(combo) ==
    IF \E k \in DOMAIN agg : agg[k].key = combo
    THEN agg[CHOOSE k \in DOMAIN agg : agg[k].key = combo].rows
    ELSE 0

RECURSIVE SumOver(_, _)
SumOver(S, f) ==
    IF S = {} THEN 0
    ELSE LET x == CHOOSE x \in S : TRUE IN f[x] + SumOver(S \ {x}, f)

NumericRows(S) == {k \in S : df[k]["slack"].t = "num"}

MinOver(S) ==
    IF NumericRows(S) = {} THEN NaNf
    ELSE Num(CHOOSE m \in {df[k]["slack"].n : k \in NumericRows(S)} :
                \A k \in NumericRows(S) : m <= df[k]["slack"].n)

SlackSumOver(S) ==
    SumOver(NumericRows(S), [k \in DOMAIN df |-> df[k]["slack"].n])

SummaryRecords(P(_)) == {k \in DOMAIN summary_df : P(summary_df[k])}

\* groups whose values on the concrete fields of a combination equal it
MatchingGroups(combo) ==
    {k \in DOMAIN agg :
        \A j \in DOMAIN combo : combo[j] = ALL \/ agg[k].key[j] = combo[j]}

GroupMinOver(G) ==
    LET mins == {agg[k].min_slack.n : k \in {g \in G : agg[g].min_slack.t = "num"}}
    IN IF mins = {} THEN NaNf
       ELSE Num(CHOOSE m \in mins : \A n \in mins : m <= n)

DomainSet(j) ==
    ({df[k][filter_cols[j]] : k \in DOMAIN df} \ {NaN}) \cup {ALL}

CombinationSpace ==
    {c \in [DOMAIN filter_cols -> UNION {DomainSet(j) : j \in DOMAIN filter_cols}] :
        \A j \in DOMAIN filter_cols : c[j] \in DomainSet(j)}

DistinctCount(j) ==
    Cardinality({df[k][filter_cols[j]] : k \in DOMAIN df} \ {NaN})

RECURSIVE SpaceSize(_)
SpaceSize(j) ==
    IF j = 0 THEN 1 ELSE (DistinctCount(j) + 1) * SpaceSize(j - 1)

MissingField ==
    \E c \in {filter_cols[j] : j \in DOMAIN filter_cols} \cup {"slack"} :
        c \notin Columns(df)

SubsetPaths == Paths(written)

----------------------------------------------------------------------------
\* Properties

\* C1: every summary record of a combination without the wildcard has a
\* row_count equal to the number of input rows whose category fields equal the
\* combination, and equal to the count of its pre-aggregated group (0 when
\* there is no such group).
C1_ExactCount ==
    Running =>
        \A k \in DOMAIN summary_rows :
            Concrete(summary_rows[k].combo) =>
                /\ summary_rows[k].rows = Cardinality(ExactRows(summary_rows[k].combo))
                /\ summary_rows[k].rows = GroupCount(summary_rows[k].combo)

C1_Witness ==
    /\ pc = "done"
    /\ Len(filter_cols) = 3
    /\ \E k \in DOMAIN summary_rows :
           Concrete(summary_rows[k].combo) /\ summary_rows[k].rows = 1
    /\ \E k \in DOMAIN summary_rows :
           Concrete(summary_rows[k].combo) /\ summary_rows[k].rows = 0

\* C2: the record of the all-wildcard combination counts every row of the
\* table (rows with a missing category or a non-numeric slack included), and
\* carries the minimum and the sum of the slack values that are not missing.
C2_AllWildcardTotals ==
    pc = "done" =>
        /\ Cardinality(SummaryRecords(LAMBDA r : AllWild(r.combo))) = 1
        /\ \A k \in DOMAIN summary_df :
               AllWild(summary_df[k].combo) =>
                   /\ summary_df[k].rows = Len(df)
                   /\ summary_df[k].min_slack = MinOver(DOMAIN df)
                   /\ summary_df[k].sum_slack = SlackSumOver(DOMAIN df)

C2_Witness ==
    /\ pc = "done"
    /\ \E k \in DOMAIN df : df[k]["q"] = NaN
    /\ \E k \in DOMAIN df : df[k]["slack"] = NaNf
    /\ \E k \in DOMAIN summary_df :
           /\ AllWild(summary_df[k].combo)
           /\ summary_df[k].rows = 2
           /\ summary_df[k].min_slack = Num(0 - 2)

\* C3 as stated: the row_counts of the combinations without the wildcard add
\* up to the number of rows of the table.
C3_ConcreteSumIsTotal ==
    pc = "done" =>
        SumOver(SummaryRecords(LAMBDA r : Concrete(r.combo)),
                [k \in DOMAIN summary_df |-> summary_df[k].rows]) = Len(df)

\* C3 as amended: the row_counts of the combinations without the wildcard add
\* up to the number of rows of the table that have no missing category value.
C3_ConcreteSumIsComplete ==
    pc = "done" =>
        SumOver(SummaryRecords(LAMBDA r : Concrete(r.combo)),
                [k \in DOMAIN summary_df |-> summary_df[k].rows])
          = Cardinality({k \in DOMAIN df :
                            \A j \in DOMAIN filter_cols : df[k][filter_cols[j]] # NaN})

C3_Witness ==
    /\ pc = "done"
    /\ Len(df) = 2
    /\ \E k \in DOMAIN df : df[k]["q"] = NaN
    /\ \E k \in DOMAIN df : df[k]["q"] # NaN
    /\ Cardinality(SummaryRecords(LAMBDA r : Concrete(r.combo) /\ r.rows = 1)) = 1

\* C4: every summary record of a combination with a wildcard is the roll-up
\* of the pre-aggregated groups that agree with it on its concrete fields:
\* the sum of their counts, the minimum of their minimums that are not
\* missing, the sum of their sums, and (0, missing, 0) when no group agrees.
C4_WildcardRollup ==
    Running =>
        \A k \in DOMAIN summary_rows :
            ~Concrete(summary_rows[k].combo) =>
                LET G == MatchingGroups(summary_rows[k].combo)
                IN /\ summary_rows[k].rows =
                          SumOver(G, [g \in DOMAIN agg |-> agg[g].rows])
                   /\ summary_rows[k].min_slack = GroupMinOver(G)
                   /\ summary_rows[k].sum_slack =
                          SumOver(G, [g \in DOMAIN agg |-> agg[g].sum_slack])

\* C5: a step that records a summary entry records a row_count >= 0, and
\* when the row_count is 0 the minimum is missing, the sum is 0 and the step
\* writes no subset file.
C5_ZeroCountRecord ==
    [][Len(summary_rows') > Len(summary_rows) =>
          LET r == summary_rows'[Len(summary_rows')]
          IN /\ r.rows >= 0
             /\ r.rows = 0 =>
                    /\ r.min_slack = NaNf
                    /\ r.sum_slack = 0
                    /\ written' = written]_vars

C5_Witness ==
    /\ export_filtered_csvs
    /\ written # <<>>
    /\ \E k \in DOMAIN summary_rows :
           Concrete(summary_rows[k].combo) /\ summary_rows[k].rows = 0
    /\ \E k \in DOMAIN summary_rows :
           ~Concrete(summary_rows[k].combo) /\ summary_rows[k].rows = 0

\* C6: with the export flag set, a completed run leaves one subset file per
\* summary record with row_count > 0, and the file of each such combination
\* holds the subset of that combination.
C6_OneFilePerCombination ==
    (pc = "done" /\ export_filtered_csvs) =>
        /\ Cardinality(SubsetPaths)
             = Cardinality(SummaryRecords(LAMBDA r : r.rows > 0))
        /\ \A k \in DOMAIN summary_df :
               summary_df[k].rows > 0 =>
                   /\ FileName(filter_cols, summary_df[k].combo) \in SubsetPaths
                   /\ Files(written)[FileName(filter_cols, summary_df[k].combo)]
                        = Subset(df, filter_cols, summary_df[k].combo)

\* C7: the summary holds one record for each combination of the product of
\* the per-field domains (the distinct values that are not missing, plus the
\* wildcard), none twice, and as many records as the product of the
\* (distinct_count + 1) of the fields.
C7_FullProduct ==
    pc = "done" =>
        /\ {summary_df[k].combo : k \in DOMAIN summary_df} = CombinationSpace
        /\ \A k, m \in DOMAIN summary_df :
               summary_df[k].combo = summary_df[m].combo => k = m
        /\ Len(summary_df) = SpaceSize(Len(filter_cols))

C7_Witness ==
    /\ pc = "done"
    /\ Len(filter_cols) = 3
    /\ Len(summary_df) = 12
    /\ \E k \in DOMAIN df : df[k]["q"] = NaN

\* C8: a second run on the table as the first run left it returns and saves
\* the summary of the first run: the same records in the same order.
C8_Idempotent ==
    (pc = "done" /\ run > 1) =>
        /\ summary_df = prev_summary
        /\ summary_file = prev_summary

C8_Witness ==
    /\ pc = "done"
    /\ run = 2
    /\ \E k \in DOMAIN df : df[k]["slack"] = NaNf
    /\ \E k \in DOMAIN df : df[k]["slack"] = Num(0 - 2)
    /\ Len(summary_df) > 4
    /\ summary_df # summary_rows

\* C9 as stated: when a category field or the slack field is absent from the
\* table, the run fails with SchemaError and no summary file and no subset
\* file is produced.
C9_SchemaError ==
    [][MissingField =>
          /\ pc' \in {"domains", "coerce", "failed"}
          /\ pc' = "failed" => error' = "SchemaError"
          /\ written' = <<>>
          /\ summary_file' = NoFile]_vars

\* C9 as amended: when a category field or the slack field is absent from the
\* table, the run fails with the KeyError of the access to the absent column,
\* and no summary file and no subset file is produced.
C9_KeyError ==
    [][MissingField =>
          /\ pc' \in {"domains", "coerce", "failed"}
          /\ pc' = "failed" => error' = "KeyError"
          /\ written' = <<>>
          /\ summary_file' = NoFile]_vars

C9_Witness ==
    /\ pc = "failed"
    /\ "slack" \notin Columns(df)
    /\ \A j \in DOMAIN filter_cols : filter_cols[j] \in Columns(df)
    /\ value_lists # <<>>

\* C10: a step that writes a subset file writes as many rows as the row_count
\* it records for the combination in the summary.
C10_SubsetMatchesCount ==
    [][Len(written') > Len(written) =>
          Len(written'[Len(written')].data)
            = summary_rows'[Len(summary_rows')].rows]_vars

C10_Witness ==
    /\ written # <<>>
    /\ Len(written[Len(written)].data) = 2
    /\ ~Concrete(summary_rows[Len(summary_rows)].combo)
    /\ \E k \in DOMAIN df : df[k]["q"] = NaN
====
